---- MODULE Spec2Model ----
(***************************************************************************)
(* Model of phd2_mqtt_bridge.py: the PHD2 protocol client loop             *)
(* (read_phd2_events), the MQTT publish helpers, the paho callbacks        *)
(* (on_connect, on_disconnect) and the shutdown sequence of main.          *)
(*                                                                         *)
(* Two threads act on the state: the main thread, whose position is pc,    *)
(* and the paho network loop thread, which runs the callbacks.             *)
(***************************************************************************)
EXTENDS Integers, Sequences, FiniteSets, TLC

(***************************************************************************)
(* Bounds of the model.                                                    *)
(***************************************************************************)
\* GuideStep / StarLost events recorded in evlog; further ones are not read.
MaxEvents == 4

(***************************************************************************)
(* Program constants.                                                      *)
(***************************************************************************)
APP_STATE_ID == 1
PIXEL_SCALE_ID == 2

(***************************************************************************)
(* JSON values as json.loads returns them.  k is the Python type of the    *)
(* value ("absent" when the key is not in the dict).  An int has value v   *)
(* (e = 0); a float has value v / 10^e with e >= 1, kept in the shortest   *)
(* form repr() prints (3.0 is v = 30, e = 1; 0.5 is v = 5, e = 1); a bool  *)
(* has v in {0, 1}.                                                        *)
(***************************************************************************)
JAbsent == [k |-> "absent", v |-> 0, e |-> 0]
JNull == [k |-> "null", v |-> 0, e |-> 0]
JStr == [k |-> "str", v |-> 0, e |-> 0]
JInt(n) == [k |-> "int", v |-> n, e |-> 0]
JBool(b) == [k |-> "bool", v |-> IF b THEN 1 ELSE 0, e |-> 0]
JFloat(m, d) == [k |-> "float", v |-> m, e |-> d]

\* Python None: what a variable holds when nothing was assigned to it.
None == JNull

RECURSIVE Pow10(_)
Pow10(n) == IF n = 0 THEN 1 ELSE 10 * Pow10(n - 1)

Abs(n) == IF n < 0 THEN -n ELSE n

\* The shortest decimal form of the float m / 10^d: at least one decimal.
RECURSIVE Norm(_, _)
Norm(m, d) ==
    IF d > 1 /\ m % 10 = 0 THEN Norm(m \div 10, d - 1) ELSE JFloat(m, d)

\* "key in msg"
HasKey(x) == x.k # "absent"

\* msg.get(key): None when the key is absent, else the value (null is None).
Get(x) == IF x.k = "absent" THEN None ELSE x

IsNone(x) == x.k = "null"

\* isinstance(x, (int, float)): bool is a subclass of int.
IsIntOrFloat(x) == x.k \in {"int", "float", "bool"}

\* float(x) for an int, bool or float.
ToFloat(x) == IF x.k = "float" THEN x ELSE Norm(x.v * 10, 1)

\* x == n for an int constant n: numbers compare by value, across types.
PyEqInt(x, n) == IsIntOrFloat(x) /\ x.v = n * Pow10(x.e)

\* a * b where b is a float raises TypeError unless a is a number.
CanMulFloat(x) == IsIntOrFloat(x)

\* a * b for a number a and a float b.
FMul(a, b) == Norm(ToFloat(a).v * b.v, ToFloat(a).e + b.e)

\* Largest r with r * r <= n.
RECURSIVE ISqrtFrom(_, _)
ISqrtFrom(n, r) == IF (r + 1) * (r + 1) > n THEN r ELSE ISqrtFrom(n, r + 1)
ISqrt(n) == ISqrtFrom(n, 0)

\* math.sqrt(a**2 + b**2) for numbers a and b: the sum of squares is
\* brought to an even number of decimals, whose half the root keeps.
SqrtSumSq(a, b) ==
    LET fa == ToFloat(a)
        fb == ToFloat(b)
        d == IF fa.e > fb.e THEN fa.e ELSE fb.e
        sa == fa.v * Pow10(d - fa.e)
        sb == fb.v * Pow10(d - fb.e)
    IN  Norm(ISqrt(sa * sa + sb * sb), d)

(***************************************************************************)
(* MQTT payloads.  A payload is a text: either one of the fixed tokens     *)
(* (txt) or a numeral with a sign, a whole part and `digits` decimals.     *)
(***************************************************************************)
Text(s) == [txt |-> s, neg |-> FALSE, whole |-> 0, frac |-> 0, digits |-> 0]
Numeral(n, w, f, d) ==
    [txt |-> "", neg |-> n, whole |-> w, frac |-> f, digits |-> d]

\* f"{value}"
Format(x) ==
    CASE x.k = "int" -> Numeral(x.v < 0, Abs(x.v), 0, 0)
      [] x.k = "float" ->
            Numeral(x.v < 0, Abs(x.v) \div Pow10(x.e), Abs(x.v) % Pow10(x.e), x.e)
      [] x.k = "bool" -> Text(IF x.v = 1 THEN "True" ELSE "False")
      [] x.k = "str" -> Text("str")
      [] OTHER -> Text("None")

(***************************************************************************)
(* Topics.                                                                 *)
(***************************************************************************)
StateTopic(name) == [prefix |-> "BASE_TOPIC", component |-> "", id |-> name]
AVAILABILITY_TOPIC == StateTopic("availability")
DiscoveryTopic(comp, obj) ==
    [prefix |-> "DISCOVERY_PREFIX", component |-> comp, id |-> obj]

ArcsecNames == {"ra_error_arcsec", "dec_error_arcsec", "total_error_arcsec"}
sensors ==
    << "ra_error_arcsec", "dec_error_arcsec", "total_error_arcsec",
       "dx_px", "dy_px", "snr", "avg_dist" >>

\* mqtt_client.publish(topic, payload, qos, retain)
Publish(topic, payload, qos, retain) ==
    [topic |-> topic, payload |-> payload, qos |-> qos, retain |-> retain]

(***************************************************************************)
(* Lines received from PHD2.  kind says how far decoding gets:             *)
(*   "badutf8"  raw_line.decode raises UnicodeDecodeError                  *)
(*   "empty"    the stripped line is empty                                 *)
(*   "badjson"  json.loads raises JSONDecodeError                          *)
(*   "nonobj"   json.loads returns a list, number, string, bool or null    *)
(*   "obj"      json.loads returns a dict with the fields below            *)
(* Event is "absent" or the event name ("Other" is any other name).        *)
(***************************************************************************)
Line(kind, id, result, Event, Timestamp, ra, dec, dx, dy, snr, avg) ==
    [kind |-> kind, id |-> id, result |-> result, Event |-> Event,
     Timestamp |-> Timestamp, RADistanceRaw |-> ra, DECDistanceRaw |-> dec,
     dx |-> dx, dy |-> dy, SNR |-> snr, AvgDist |-> avg]

Bare(kind) ==
    Line(kind, JAbsent, JAbsent, "absent", JAbsent, JAbsent, JAbsent,
         JAbsent, JAbsent, JAbsent, JAbsent)

\* No line: the latest step did not read one.
NoLine == Bare("none")

Header(id, result, Event) ==
    Line("obj", id, result, Event, JAbsent, JAbsent, JAbsent,
         JAbsent, JAbsent, JAbsent, JAbsent)

GuideStep(ts, ra, dec, dx, dy, snr, avg) ==
    Line("obj", JAbsent, JAbsent, "GuideStep", ts, ra, dec, dx, dy, snr, avg)

\* Values the fields take in the lines the model reads.
IdVals == {JInt(APP_STATE_ID), JInt(PIXEL_SCALE_ID), JInt(3)}
ResultVals == {JFloat(5, 1), JInt(1), JStr}
\* results of a get_pixel_scale response that are not numbers in JSON
NonNumberVals == {JBool(TRUE), JNull}
EventVals == {"absent", "GuideStep", "StarLost", "Other"}
RAVals == {JAbsent, JNull, JInt(3), JFloat(30, 1), JFloat(-30, 1), JStr}
DECVals == {JAbsent, JFloat(40, 1), JInt(0)}
TimestampVals == {JAbsent, JInt(1700000000), JStr}
DxVals == {JAbsent, JNull, JInt(2), JFloat(-15, 1)}
DyVals == {JAbsent, JFloat(25, 2)}
SNRVals == {JAbsent, JFloat(305, 1)}
AvgDistVals == {JAbsent, JFloat(5, 1)}

Lines ==
    {Bare(k) : k \in {"badutf8", "empty", "badjson", "nonobj"}}
    \* every combination of id, result and Event being present
    \cup {Header(i, r, ev) : i \in {JAbsent, JInt(PIXEL_SCALE_ID)},
                             r \in {JAbsent, JFloat(5, 1)}, ev \in EventVals}
    \* RPC responses
    \cup {Header(i, r, "absent") : i \in IdVals, r \in ResultVals}
    \cup {Header(JInt(PIXEL_SCALE_ID), r, "absent") : r \in NonNumberVals}
    \* GuideSteps: the raw distances, the Timestamp, the passed-through fields
    \cup {GuideStep(JInt(1700000000), ra, dec, JFloat(-15, 1),
                    JAbsent, JAbsent, JAbsent) : ra \in RAVals, dec \in DECVals}
    \cup {GuideStep(ts, JInt(3), JFloat(40, 1), JInt(2), JAbsent, JAbsent,
                    JAbsent) : ts \in TimestampVals}
    \cup {GuideStep(JAbsent, JInt(3), JFloat(40, 1), dx, JAbsent, JAbsent,
                    JAbsent) : dx \in DxVals}
    \cup {GuideStep(JAbsent, JAbsent, JAbsent, JAbsent, dy, snr, avg) :
            dy \in DyVals, snr \in SNRVals, avg \in AvgDistVals}

(***************************************************************************)
(* State.                                                                  *)
(***************************************************************************)
VARIABLES
    pc,                         \* position of the main thread
    sock,                       \* "none", "open" or "closed"
    exitMode,                   \* how the try block is left: loop, break, raise
    PIXEL_SCALE_ARCSEC_PER_PX,  \* None or a float
    guide_star_available,       \* None, True or False
    discovery_published,        \* BOOLEAN
    mqttLoop,                   \* "running" or "stopped": paho's loop thread
    mqttConnected,              \* the broker session is up
    pubs,                       \* the publishes of the latest step, in order
    lastLine,                   \* the line the latest step processed
    evlog,                      \* history: GuideStep/StarLost events handled
    gsaLog,                     \* history: payloads sent to guide_star_available
    discCount,                  \* history: publishes per discovery topic
    scaleConn,                  \* history: scale was set on this connection
    lostBy,                     \* history: how the latest connection ended
    slept,                      \* history: time.sleep(5) ran since it ended
    interrupted,                \* history: KeyboardInterrupt was delivered
    intAt,                      \* history: the position it was delivered at
    shutLog,                    \* history: the shutdown steps taken, in order
    availability,               \* history: the last payload sent to availability
    lastCb                      \* the callback the latest step ran

vars ==
    << pc, sock, exitMode, PIXEL_SCALE_ARCSEC_PER_PX, guide_star_available,
       discovery_published, mqttLoop, mqttConnected, pubs, lastLine, evlog,
       gsaLog, discCount, scaleConn, lostBy, slept, interrupted, intAt,
       shutLog, availability, lastCb >>

shutVars == << intAt, shutLog >>

mainVars ==
    << pc, sock, exitMode, PIXEL_SCALE_ARCSEC_PER_PX, guide_star_available,
       evlog, gsaLog, scaleConn, lostBy, slept, interrupted >>

DiscoveryTopics ==
    {DiscoveryTopic("sensor", sensors[i]) : i \in 1..Len(sensors)}
    \cup {DiscoveryTopic("binary_sensor", "guide_star_available")}

\* The state when main has run setup_mqtt and enters read_phd2_events.
Init ==
    /\ pc = "Connecting"
    /\ sock = "none"
    /\ exitMode = "loop"
    /\ PIXEL_SCALE_ARCSEC_PER_PX = None
    /\ guide_star_available = None
    /\ discovery_published = FALSE
    /\ mqttLoop = "running"
    /\ mqttConnected = FALSE
    /\ pubs = << >>
    /\ lastLine = NoLine
    /\ evlog = << >>
    /\ gsaLog = << >>
    /\ discCount = [t \in DiscoveryTopics |-> 0]
    /\ scaleConn = FALSE
    /\ lostBy = "none"
    /\ slept = FALSE
    /\ interrupted = FALSE
    /\ intAt = "none"
    /\ shutLog = << >>
    /\ availability = "none"
    /\ lastCb = "none"

(***************************************************************************)
(* MQTT helpers.  Each gives the publishes it makes, in order.             *)
(***************************************************************************)
set_availability(online) ==
    << Publish(AVAILABILITY_TOPIC, Text(IF online THEN "online" ELSE "offline"),
               1, TRUE) >>

\* publish_numeric without the test of lines 222-224.
publish_numeric_NoSkip(topic, value) ==
    << Publish(topic, Format(value), 0, TRUE) >>

publish_numeric(topic, value) ==
    IF IsNone(value) THEN << >>
    ELSE << Publish(topic, Format(value), 0, TRUE) >>

\* GsaSame without the comparison of line 231: every event publishes.
GsaSame_Never(cur, available) == FALSE

\* publish_guide_star_available(available), from the flag's value cur:
\* whether it returns early, the flag afterwards and the publishes.
GsaSame(cur, available) == cur = JBool(available)

\* GsaFlag without the assignment of line 234.
GsaFlag_NoUpdate(cur, available) == cur

GsaFlag(cur, available) ==
    IF GsaSame(cur, available) THEN cur ELSE JBool(available)

\* GsaPubs with the two payloads of line 236 exchanged.
GsaPubs_Inverted(cur, available) ==
    IF GsaSame(cur, available) THEN << >>
    ELSE << Publish(StateTopic("guide_star_available"),
                    Text(IF available THEN "OFF" ELSE "ON"), 0, TRUE) >>

GsaPubs(cur, available) ==
    IF GsaSame(cur, available) THEN << >>
    ELSE << Publish(StateTopic("guide_star_available"),
                    Text(IF available THEN "ON" ELSE "OFF"), 0, TRUE) >>

\* DiscoveryPubs without the early return of lines 94-95.
DiscoveryPubs_NoFlag(done) ==
    [i \in 1..Len(sensors) |->
        Publish(DiscoveryTopic("sensor", sensors[i]), Text("config"), 1, TRUE)]
    \o << Publish(DiscoveryTopic("binary_sensor", "guide_star_available"),
                  Text("config"), 1, TRUE) >>

\* publish_discovery(), from the flag's value done: one config record per
\* sensor, then the binary sensor's.
DiscoveryPubs(done) ==
    IF done THEN << >>
    ELSE [i \in 1..Len(sensors) |->
            Publish(DiscoveryTopic("sensor", sensors[i]), Text("config"), 1, TRUE)]
         \o << Publish(DiscoveryTopic("binary_sensor", "guide_star_available"),
                       Text("config"), 1, TRUE) >>

TopicsOf(seq) == {seq[i].topic : i \in 1..Len(seq)}
CountOn(seq, t) == Cardinality({i \in 1..Len(seq) : seq[i].topic = t})

(***************************************************************************)
(* The body of the read loop for one line (lines 329-436).                 *)
(***************************************************************************)
\* Skipped without the except clause of lines 344-346.
Skipped_NoJsonExcept(line) == line.kind \in {"badutf8", "empty"}

\* The line is dropped before it is decoded to a message.
Skipped(line) == line.kind \in {"badutf8", "empty", "badjson"}

\* if "result" in msg and "id" in msg
IsRpcResponse(msg) == HasKey(msg.result) /\ HasKey(msg.id)

\* evt = msg.get("Event"), for a message that is not an RPC response
EventOf(msg) == IF IsRpcResponse(msg) THEN "absent" ELSE msg.Event

\* The scale after an RPC response.
ScaleAfterRpc(msg, scale) ==
    IF PyEqInt(msg.id, APP_STATE_ID) THEN scale
    ELSE IF PyEqInt(msg.id, PIXEL_SCALE_ID) /\ IsIntOrFloat(msg.result)
         THEN ToFloat(msg.result)
         ELSE scale

\* The RPC response sets the scale.
SetsScale(msg) ==
    /\ IsRpcResponse(msg)
    /\ ~PyEqInt(msg.id, APP_STATE_ID)
    /\ PyEqInt(msg.id, PIXEL_SCALE_ID)
    /\ IsIntOrFloat(msg.result)

\* Lines 391-396: the three arcsecond values are computed.
ComputesArcsec(msg, scale) ==
    /\ ~IsNone(scale)
    /\ ~IsNone(Get(msg.RADistanceRaw))
    /\ ~IsNone(Get(msg.DECDistanceRaw))

\* The GuideStep raises TypeError: a raw distance that cannot be multiplied
\* (lines 393-395) or a Timestamp that is not a number (line 404).
GuideStepRaises(msg, scale) ==
    \/ /\ ComputesArcsec(msg, scale)
       /\ ~(CanMulFloat(msg.RADistanceRaw) /\ CanMulFloat(msg.DECDistanceRaw))
    \/ /\ ~IsNone(Get(msg.Timestamp))
       /\ ~IsIntOrFloat(msg.Timestamp)

ra_arcsec(msg, scale) ==
    IF ComputesArcsec(msg, scale) THEN FMul(msg.RADistanceRaw, scale) ELSE None

dec_arcsec(msg, scale) ==
    IF ComputesArcsec(msg, scale) THEN FMul(msg.DECDistanceRaw, scale) ELSE None

\* total_arcsec without the scaling of line 396.
total_arcsec_Unscaled(msg, scale) ==
    IF ComputesArcsec(msg, scale)
    THEN SqrtSumSq(msg.RADistanceRaw, msg.DECDistanceRaw)
    ELSE None

total_arcsec(msg, scale) ==
    IF ComputesArcsec(msg, scale)
    THEN FMul(SqrtSumSq(msg.RADistanceRaw, msg.DECDistanceRaw), scale)
    ELSE None

\* Lines 415-420.
ArcsecPubs(msg, scale) ==
    IF ~IsNone(scale)
    THEN publish_numeric(StateTopic("ra_error_arcsec"), ra_arcsec(msg, scale))
         \o publish_numeric(StateTopic("dec_error_arcsec"), dec_arcsec(msg, scale))
         \o publish_numeric(StateTopic("total_error_arcsec"),
                            total_arcsec(msg, scale))
    ELSE << >>

\* Lines 422-426.
PixelPubs(msg) ==
    publish_numeric(StateTopic("dx_px"), Get(msg.dx))
    \o publish_numeric(StateTopic("dy_px"), Get(msg.dy))
    \o publish_numeric(StateTopic("snr"), Get(msg.SNR))
    \o publish_numeric(StateTopic("avg_dist"), Get(msg.AvgDist))

\* An uncaught exception leaves the loop body: a message that is not a dict
\* has no .get (or no "in"), a GuideStep may raise TypeError.
LineRaises(line, scale) ==
    /\ ~Skipped(line)
    /\ \/ line.kind # "obj"
       \/ /\ EventOf(line) = "GuideStep"
          /\ GuideStepRaises(line, scale)

\* The line reaches publish_guide_star_available.
IsStarEvent(line, scale) ==
    /\ line.kind = "obj"
    /\ EventOf(line) \in {"GuideStep", "StarLost"}
    /\ ~LineRaises(line, scale)

\* The publishes of one line, before publish_guide_star_available.
LinePubs(line, scale) ==
    IF IsStarEvent(line, scale) /\ EventOf(line) = "GuideStep"
    THEN ArcsecPubs(line, scale) \o PixelPubs(line)
    ELSE << >>

\* The whole loop body for one line.
ProcessLine(line) ==
    LET scale == PIXEL_SCALE_ARCSEC_PER_PX
        star == IsStarEvent(line, scale)
        available == EventOf(line) = "GuideStep"
        rpc == line.kind = "obj" /\ IsRpcResponse(line)
        gsa == IF star THEN GsaPubs(guide_star_available, available) ELSE << >>
    IN  /\ lastLine' = line
        /\ lastCb' = "none"
        /\ PIXEL_SCALE_ARCSEC_PER_PX' =
              IF rpc THEN ScaleAfterRpc(line, scale) ELSE scale
        /\ scaleConn' = (scaleConn \/ (rpc /\ SetsScale(line)))
        /\ guide_star_available' =
              IF star THEN GsaFlag(guide_star_available, available)
              ELSE guide_star_available
        /\ pubs' = LinePubs(line, scale) \o gsa
        /\ evlog' = IF star THEN Append(evlog, EventOf(line)) ELSE evlog
        /\ gsaLog' = gsaLog \o [i \in 1..Len(gsa) |-> gsa[i].payload.txt]
        /\ IF LineRaises(line, scale)
           THEN pc' = "Finally" /\ exitMode' = "raise" /\ lostBy' = "exception"
           ELSE UNCHANGED << pc, exitMode, lostBy >>
        /\ UNCHANGED << sock, slept, interrupted >>

mqttVars == << discovery_published, mqttLoop, mqttConnected, discCount >>
NoStep == pubs' = << >> /\ lastLine' = NoLine /\ lastCb' = "none"

(***************************************************************************)
(* read_phd2_events: the main thread.                                      *)
(***************************************************************************)
\* ConnectOk that starts every connection with the flag unknown.
ConnectOk_ResetsFlag ==
    /\ pc = "Connecting"
    /\ pc' = "SendAppState"
    /\ sock' = "open"
    /\ scaleConn' = FALSE
    /\ lostBy' = "none"
    /\ slept' = FALSE
    /\ guide_star_available' = None
    /\ NoStep
    /\ UNCHANGED << exitMode, PIXEL_SCALE_ARCSEC_PER_PX, evlog, gsaLog,
                    interrupted >>
    /\ UNCHANGED mqttVars
    /\ UNCHANGED shutVars
    /\ UNCHANGED availability

\* Line 306: socket.create_connection succeeds.
ConnectOk ==
    /\ pc = "Connecting"
    /\ pc' = "SendAppState"
    /\ sock' = "open"
    /\ scaleConn' = FALSE
    /\ lostBy' = "none"
    /\ slept' = FALSE
    /\ NoStep
    /\ UNCHANGED << exitMode, PIXEL_SCALE_ARCSEC_PER_PX, guide_star_available,
                    evlog, gsaLog, interrupted >>
    /\ UNCHANGED mqttVars
    /\ UNCHANGED shutVars
    /\ UNCHANGED availability

\* Line 306: socket.create_connection raises ConnectionRefusedError / OSError.
ConnectRefused ==
    /\ pc = "Connecting"
    /\ pc' = "Sleeping"
    /\ sock' = "none"
    /\ lostBy' = "refused"
    /\ slept' = FALSE
    /\ NoStep
    /\ UNCHANGED << exitMode, PIXEL_SCALE_ARCSEC_PER_PX, guide_star_available,
                    evlog, gsaLog, scaleConn, interrupted >>
    /\ UNCHANGED mqttVars
    /\ UNCHANGED shutVars
    /\ UNCHANGED availability

\* SendRequest going on to the read loop without the assignment of line 327.
SendRequest_SkipsReset ==
    /\ pc \in {"SendAppState", "SendPixelScale"}
    /\ pc' = IF pc = "SendAppState" THEN "SendPixelScale" ELSE "Reading"
    /\ NoStep
    /\ UNCHANGED << sock, exitMode, PIXEL_SCALE_ARCSEC_PER_PX,
                    guide_star_available, evlog, gsaLog, scaleConn, lostBy,
                    slept, interrupted >>
    /\ UNCHANGED mqttVars
    /\ UNCHANGED shutVars
    /\ UNCHANGED availability

\* Lines 308-324: a request is written to the socket.
SendRequest ==
    /\ pc \in {"SendAppState", "SendPixelScale"}
    /\ pc' = IF pc = "SendAppState" THEN "SendPixelScale" ELSE "ResetScale"
    /\ NoStep
    /\ UNCHANGED << sock, exitMode, PIXEL_SCALE_ARCSEC_PER_PX,
                    guide_star_available, evlog, gsaLog, scaleConn, lostBy,
                    slept, interrupted >>
    /\ UNCHANGED mqttVars
    /\ UNCHANGED shutVars
    /\ UNCHANGED availability

\* Lines 308-324: f.write raises OSError.
SendFails ==
    /\ pc \in {"SendAppState", "SendPixelScale"}
    /\ pc' = "Sleeping"
    /\ lostBy' = "senderr"
    /\ slept' = FALSE
    /\ NoStep
    /\ UNCHANGED << sock, exitMode, PIXEL_SCALE_ARCSEC_PER_PX,
                    guide_star_available, evlog, gsaLog, scaleConn, interrupted >>
    /\ UNCHANGED mqttVars
    /\ UNCHANGED shutVars
    /\ UNCHANGED availability

\* ResetScale without the assignment of line 327.
ResetScale_KeepsScale ==
    /\ pc = "ResetScale"
    /\ pc' = "Reading"
    /\ NoStep
    /\ UNCHANGED << sock, exitMode, PIXEL_SCALE_ARCSEC_PER_PX,
                    guide_star_available, evlog, gsaLog, scaleConn, lostBy,
                    slept, interrupted >>
    /\ UNCHANGED mqttVars
    /\ UNCHANGED shutVars
    /\ UNCHANGED availability

\* Line 327.
ResetScale ==
    /\ pc = "ResetScale"
    /\ pc' = "Reading"
    /\ PIXEL_SCALE_ARCSEC_PER_PX' = None
    /\ NoStep
    /\ UNCHANGED << sock, exitMode, guide_star_available, evlog, gsaLog,
                    scaleConn, lostBy, slept, interrupted >>
    /\ UNCHANGED mqttVars
    /\ UNCHANGED shutVars
    /\ UNCHANGED availability

\* Lines 329-436: the next line arrives and is processed.
ReadLine ==
    /\ pc = "Reading"
    /\ \E line \in Lines :
          /\ IsStarEvent(line, PIXEL_SCALE_ARCSEC_PER_PX) => Len(evlog) < MaxEvents
          /\ ProcessLine(line)
    /\ UNCHANGED mqttVars
    /\ UNCHANGED shutVars
    /\ UNCHANGED availability

\* Line 329: the stream ends; the for loop ends without an exception.
ReadEOF ==
    /\ pc = "Reading"
    /\ pc' = "Finally"
    /\ exitMode' = "loop"
    /\ lostBy' = "eof"
    /\ slept' = FALSE
    /\ NoStep
    /\ UNCHANGED << sock, PIXEL_SCALE_ARCSEC_PER_PX, guide_star_available,
                    evlog, gsaLog, scaleConn, interrupted >>
    /\ UNCHANGED mqttVars
    /\ UNCHANGED shutVars
    /\ UNCHANGED availability

\* Line 329: the read raises OSError (connection reset).
ReadError ==
    /\ pc = "Reading"
    /\ pc' = "Sleeping"
    /\ lostBy' = "readerr"
    /\ slept' = FALSE
    /\ NoStep
    /\ UNCHANGED << sock, exitMode, PIXEL_SCALE_ARCSEC_PER_PX,
                    guide_star_available, evlog, gsaLog, scaleConn, interrupted >>
    /\ UNCHANGED mqttVars
    /\ UNCHANGED shutVars
    /\ UNCHANGED availability

\* SleepDone that gives up after the sleep (a break at line 440).
SleepDone_GivesUp ==
    /\ pc = "Sleeping"
    /\ pc' = "Finally"
    /\ exitMode' = "break"
    /\ slept' = TRUE
    /\ NoStep
    /\ UNCHANGED << sock, PIXEL_SCALE_ARCSEC_PER_PX, guide_star_available,
                    evlog, gsaLog, scaleConn, lostBy, interrupted >>
    /\ UNCHANGED mqttVars
    /\ UNCHANGED shutVars
    /\ UNCHANGED availability

\* Lines 438-440: time.sleep(5) returns.
SleepDone ==
    /\ pc = "Sleeping"
    /\ pc' = "Finally"
    /\ exitMode' = "loop"
    /\ slept' = TRUE
    /\ NoStep
    /\ UNCHANGED << sock, PIXEL_SCALE_ARCSEC_PER_PX, guide_star_available,
                    evlog, gsaLog, scaleConn, lostBy, interrupted >>
    /\ UNCHANGED mqttVars
    /\ UNCHANGED shutVars
    /\ UNCHANGED availability

\* KeyboardInterrupt caught and dropped: the loop goes on.
KeyboardInterrupt_Swallowed ==
    /\ pc \in {"Connecting", "SendAppState", "SendPixelScale", "ResetScale",
               "Reading", "Sleeping"}
    /\ pc' = "Finally"
    /\ exitMode' = "loop"
    /\ sock' = IF pc = "Connecting" THEN "none" ELSE sock
    /\ interrupted' = TRUE
    /\ intAt' = pc
    /\ NoStep
    /\ UNCHANGED << PIXEL_SCALE_ARCSEC_PER_PX, guide_star_available, evlog,
                    gsaLog, scaleConn, lostBy, slept, shutLog, availability >>
    /\ UNCHANGED mqttVars

\* Lines 441-443: KeyboardInterrupt in the try body is caught and breaks; in
\* the except clause (during the sleep) it propagates.
KeyboardInterrupt ==
    /\ pc \in {"Connecting", "SendAppState", "SendPixelScale", "ResetScale",
               "Reading", "Sleeping"}
    /\ pc' = "Finally"
    /\ exitMode' = IF pc = "Sleeping" THEN "raise" ELSE "break"
    /\ sock' = IF pc = "Connecting" THEN "none" ELSE sock
    /\ interrupted' = TRUE
    /\ NoStep
    /\ UNCHANGED << PIXEL_SCALE_ARCSEC_PER_PX, guide_star_available, evlog,
                    gsaLog, scaleConn, lostBy, slept >>
    /\ UNCHANGED mqttVars
    /\ intAt' = pc
    /\ UNCHANGED shutLog
    /\ UNCHANGED availability

\* The interrupt is delivered inside the finally clause, before sock.close()
\* (lines 444-450): "except Exception" does not catch it, the socket is left
\* as it is and the exception leaves read_phd2_events.
KeyboardInterruptInFinally ==
    /\ pc = "Finally"
    /\ ~interrupted
    /\ pc' = "ShutOffline"
    /\ exitMode' = "raise"
    /\ interrupted' = TRUE
    /\ intAt' = pc
    /\ NoStep
    /\ UNCHANGED << sock, PIXEL_SCALE_ARCSEC_PER_PX, guide_star_available,
                    evlog, gsaLog, scaleConn, lostBy, slept, shutLog,
                    availability >>
    /\ UNCHANGED mqttVars

\* Lines 444-450, then the loop continues, or the function is left.
FinallyClose ==
    /\ pc = "Finally"
    /\ sock' = IF sock = "open" THEN "closed" ELSE sock
    /\ pc' = IF exitMode = "loop" THEN "Connecting" ELSE "ShutOffline"
    /\ NoStep
    /\ UNCHANGED << exitMode, PIXEL_SCALE_ARCSEC_PER_PX, guide_star_available,
                    evlog, gsaLog, scaleConn, lostBy, slept, interrupted >>
    /\ UNCHANGED mqttVars
    /\ UNCHANGED shutVars
    /\ UNCHANGED availability

(***************************************************************************)
(* main: the shutdown sequence (lines 461-470).                            *)
(***************************************************************************)
\* ShutOffline whose exception is not caught (no try around line 463): the
\* stop and the disconnect are not reached.
ShutOfflineRaises_Uncaught ==
    /\ pc = "ShutOffline"
    /\ pc' = "Exited"
    /\ shutLog' = Append(shutLog, "offline raised")
    /\ NoStep
    /\ UNCHANGED << sock, exitMode, PIXEL_SCALE_ARCSEC_PER_PX,
                    guide_star_available, evlog, gsaLog, scaleConn, lostBy,
                    slept, interrupted, intAt, availability >>
    /\ UNCHANGED mqttVars

\* Lines 462-465: mqtt_client.publish raises; the exception is caught and
\* logged, nothing is published.
ShutOfflineRaises ==
    /\ pc = "ShutOffline"
    /\ pc' = "ShutStop"
    /\ shutLog' = Append(shutLog, "offline raised")
    /\ NoStep
    /\ UNCHANGED << sock, exitMode, PIXEL_SCALE_ARCSEC_PER_PX,
                    guide_star_available, evlog, gsaLog, scaleConn, lostBy,
                    slept, interrupted, intAt, availability >>
    /\ UNCHANGED mqttVars

\* Lines 462-463: availability=offline is published.
ShutOffline ==
    /\ pc = "ShutOffline"
    /\ pc' = "ShutStop"
    /\ pubs' = set_availability(FALSE)
    /\ lastLine' = NoLine
    /\ UNCHANGED << sock, exitMode, PIXEL_SCALE_ARCSEC_PER_PX,
                    guide_star_available, evlog, gsaLog, scaleConn, lostBy,
                    slept, interrupted >>
    /\ UNCHANGED mqttVars
    /\ lastCb' = "none"
    /\ availability' = "offline"
    /\ shutLog' = Append(shutLog, "offline")
    /\ UNCHANGED intAt

\* Line 468: mqtt_client.loop_stop().
ShutStop ==
    /\ pc = "ShutStop"
    /\ pc' = "ShutDisconnect"
    /\ mqttLoop' = "stopped"
    /\ NoStep
    /\ UNCHANGED << sock, exitMode, PIXEL_SCALE_ARCSEC_PER_PX,
                    guide_star_available, evlog, gsaLog, scaleConn, lostBy,
                    slept, interrupted >>
    /\ UNCHANGED << discovery_published, mqttConnected, discCount >>
    /\ shutLog' = Append(shutLog, "loop_stop")
    /\ UNCHANGED << intAt, availability >>

\* Line 469: mqtt_client.disconnect().
ShutDisconnect ==
    /\ pc = "ShutDisconnect"
    /\ pc' = "Exited"
    /\ mqttConnected' = FALSE
    /\ NoStep
    /\ UNCHANGED << sock, exitMode, PIXEL_SCALE_ARCSEC_PER_PX,
                    guide_star_available, evlog, gsaLog, scaleConn, lostBy,
                    slept, interrupted >>
    /\ UNCHANGED << discovery_published, mqttLoop, discCount >>
    /\ shutLog' = Append(shutLog, "disconnect")
    /\ UNCHANGED << intAt, availability >>

(***************************************************************************)
(* The paho callbacks, run by the network loop thread.                     *)
(***************************************************************************)
\* Result codes of CONNACK: 0 is success, 5 is "not authorized".
ResultCodes == {0, 5}

\* on_connect with the two calls of lines 250-251 exchanged.
on_connect_DiscoveryFirst(rc) ==
    LET disc == IF rc = 0 THEN DiscoveryPubs(discovery_published) ELSE << >>
    IN  /\ mqttLoop = "running"
        /\ ~mqttConnected
        /\ mqttConnected' = (rc = 0)
        /\ pubs' = IF rc = 0 THEN disc \o set_availability(TRUE) ELSE << >>
        /\ discovery_published' = (discovery_published \/ rc = 0)
        /\ discCount' = [t \in DiscoveryTopics |-> discCount[t] + CountOn(disc, t)]
        /\ availability' = IF rc = 0 THEN "online" ELSE availability
        /\ lastLine' = NoLine
        /\ lastCb' = IF rc = 0 THEN "connect ok" ELSE "connect failed"
        /\ UNCHANGED mqttLoop
        /\ UNCHANGED mainVars
        /\ UNCHANGED shutVars

\* Lines 244-251: the broker answered a connection attempt.
on_connect(rc) ==
    LET disc == IF rc = 0 THEN DiscoveryPubs(discovery_published) ELSE << >>
    IN  /\ mqttLoop = "running"
        /\ ~mqttConnected
        /\ mqttConnected' = (rc = 0)
        /\ pubs' = IF rc = 0 THEN set_availability(TRUE) \o disc ELSE << >>
        /\ discovery_published' = (discovery_published \/ rc = 0)
        /\ discCount' = [t \in DiscoveryTopics |-> discCount[t] + CountOn(disc, t)]
        /\ availability' = IF rc = 0 THEN "online" ELSE availability
        /\ lastLine' = NoLine
        /\ lastCb' = IF rc = 0 THEN "connect ok" ELSE "connect failed"
        /\ UNCHANGED mqttLoop
        /\ UNCHANGED mainVars
        /\ UNCHANGED shutVars

\* Lines 254-257: the broker session is lost.
on_disconnect ==
    /\ mqttLoop = "running"
    /\ mqttConnected
    /\ mqttConnected' = FALSE
    /\ pubs' = << >>
    /\ lastLine' = NoLine
    /\ lastCb' = "disconnect"
    /\ UNCHANGED << discovery_published, mqttLoop, discCount >>
    /\ UNCHANGED mainVars
    /\ UNCHANGED shutVars
    /\ UNCHANGED availability

Next ==
    \/ ConnectOk
    \/ ConnectRefused
    \/ SendRequest
    \/ SendFails
    \/ ResetScale
    \/ ReadLine
    \/ ReadEOF
    \/ ReadError
    \/ SleepDone
    \/ KeyboardInterrupt
    \/ KeyboardInterruptInFinally
    \/ FinallyClose
    \/ ShutOffline
    \/ ShutOfflineRaises
    \/ ShutStop
    \/ ShutDisconnect
    \/ \E rc \in ResultCodes : on_connect(rc)
    \/ on_disconnect

Spec == Init /\ [][Next]_vars

\* The sleep and the close return, and a blocked connect call ends: the
\* main thread is never stopped while one of these steps is pending.
LiveSpec ==
    /\ Init
    /\ [][Next]_vars
    /\ WF_vars(SleepDone)
    /\ WF_vars(FinallyClose)

\* As LiveSpec, and the three calls of main's finally clause return.
TermSpec ==
    /\ Init
    /\ [][Next]_vars
    /\ WF_vars(SleepDone)
    /\ WF_vars(FinallyClose)
    /\ WF_vars(ShutOffline)
    /\ WF_vars(ShutStop)
    /\ WF_vars(ShutDisconnect)

(***************************************************************************)
(* Properties.                                                             *)
(***************************************************************************)
ArcsecTopics == {StateTopic(n) : n \in ArcsecNames}
GsaTopic == StateTopic("guide_star_available")

\* The latest step processed a GuideStep / StarLost event to its end.
LastWasGuideStep ==
    IsStarEvent(lastLine, PIXEL_SCALE_ARCSEC_PER_PX)
    /\ EventOf(lastLine) = "GuideStep"

\* C1: an arcsecond topic is published only by a step that processes a
\* GuideStep while the scale is known and was set by a get_pixel_scale
\* response of the current connection; and while the client reads a
\* connection on which no response has set the scale, the scale is unknown
\* (a scale learned on an earlier connection is gone before the first line).
C1_ArcsecGated ==
    /\ (TopicsOf(pubs) \cap ArcsecTopics # {}) =>
          /\ LastWasGuideStep
          /\ ~IsNone(PIXEL_SCALE_ARCSEC_PER_PX)
          /\ scaleConn
    /\ (pc = "Reading" /\ ~scaleConn) => IsNone(PIXEL_SCALE_ARCSEC_PER_PX)

\* An arcsecond publish happened on a connection that learned the scale,
\* after at least one event was already handled.
C1_Witness ==
    /\ TopicsOf(pubs) \cap ArcsecTopics = ArcsecTopics
    /\ scaleConn
    /\ Len(evlog) > 1

\* C2: a step that handles a GuideStep or StarLost event publishes on
\* guide_star_available exactly when the value the event implies differs
\* from the flag (unknown differs from both); when it is the same, nothing is
\* published there and the flag keeps its value.
C2_PublishIffTransition ==
    [][ Len(evlog') > Len(evlog) =>
          LET implied == JBool(evlog'[Len(evlog')] = "GuideStep")
          IN  /\ (CountOn(pubs', GsaTopic) = 1) <=> (implied # guide_star_available)
              /\ CountOn(pubs', GsaTopic) <= 1
              /\ implied = guide_star_available =>
                    /\ CountOn(pubs', GsaTopic) = 0
                    /\ guide_star_available' = guide_star_available
              /\ guide_star_available' = implied
      ]_vars

\* A repeated event was handled and published nothing on the flag's topic.
C2_Witness ==
    /\ Len(evlog) >= 2
    /\ evlog[Len(evlog)] = evlog[Len(evlog) - 1]
    /\ IsStarEvent(lastLine, PIXEL_SCALE_ARCSEC_PER_PX)
    /\ GsaTopic \notin TopicsOf(pubs)

\* C3: every discovery record is published at most once, and once
\* discovery_published is set no step publishes a discovery record.
C3_DiscoveryOnce ==
    /\ [](\A t \in DiscoveryTopics : discCount[t] <= 1)
    /\ [][ discovery_published => TopicsOf(pubs') \cap DiscoveryTopics = {} ]_vars

\* A later on_connect ran with the flag set: it published availability only.
C3_Witness ==
    /\ discovery_published
    /\ pubs = set_availability(TRUE)
    /\ \A t \in DiscoveryTopics : discCount[t] = 1

\* The latest connection, or attempt, has failed and the client has not yet
\* come back to line 306.
Failures == {"refused", "senderr", "readerr", "eof"}
RetryPending == lostBy \in Failures /\ pc \in {"Sleeping", "Finally"}

\* C4: after every refusal, socket error or end-of-stream the client comes
\* back to the connection attempt of line 306, unless the operator interrupts.
C4_RetriesForever == RetryPending ~> (pc = "Connecting" \/ interrupted)

\* The client is back at the connection attempt after a refused attempt that
\* itself followed a lost connection (the scale of that connection remains).
C4_Witness ==
    /\ pc = "Connecting"
    /\ lostBy = "refused"
    /\ slept
    /\ ~interrupted
    /\ ~IsNone(PIXEL_SCALE_ARCSEC_PER_PX)

\* C5 (as claimed): the client is never back at the connection attempt after
\* a lost connection without time.sleep(5) having run in between.
C5_WaitBeforeReconnect ==
    (pc = "Connecting" /\ lostBy \in {"senderr", "readerr", "eof"}) => slept

\* C6: a step that reads a line that is not UTF-8 or not JSON publishes
\* nothing and changes no part of the program's state: the scale, the flag,
\* the socket and the position in the read loop are as before, so the lines
\* around it are processed from the same state.
C6_BadLineSkipped ==
    [][ lastLine'.kind \in {"badutf8", "badjson"} =>
          /\ pubs' = << >>
          /\ pc = "Reading" /\ pc' = "Reading"
          /\ sock = "open" /\ sock' = "open"
          /\ UNCHANGED << PIXEL_SCALE_ARCSEC_PER_PX, guide_star_available,
                          exitMode, discovery_published, mqttLoop,
                          mqttConnected, evlog, gsaLog, scaleConn >>
      ]_vars

\* A line that is not JSON was skipped on a connection that had handled an
\* event and learned the scale before it.
C6_Witness ==
    /\ lastLine.kind = "badjson"
    /\ pc = "Reading"
    /\ Len(evlog) > 0
    /\ scaleConn

\* The main thread has left read_phd2_events.
Terminated == pc \in {"ShutOffline", "ShutStop", "ShutDisconnect", "Exited"}

\* C7 (as claimed): the client leaves its loop only by an operator interrupt.
C7_OnlyInterruptTerminates == Terminated => interrupted

\* The passed-through fields of the latest line, with their topics.
PassThrough ==
    { << lastLine.dx, StateTopic("dx_px") >>,
      << lastLine.dy, StateTopic("dy_px") >>,
      << lastLine.SNR, StateTopic("snr") >>,
      << lastLine.AvgDist, StateTopic("avg_dist") >> }

\* The payload published on topic t by the latest step.
PayloadOn(t) == pubs[CHOOSE i \in 1..Len(pubs) : pubs[i].topic = t].payload

\* The number a numeral denotes, as v / 10^e.
NumberOf(p) ==
    [v |-> (IF p.neg THEN -1 ELSE 1) * (p.whole * Pow10(p.digits) + p.frac),
     e |-> p.digits]

\* v / 10^e denotes the same number on both sides.
SameNumber(a, b) == a.v * Pow10(b.e) = b.v * Pow10(a.e)

\* The payload on t is the numeral of the number x, of x's type (an int has
\* no decimals, a float has some).
CarriesValue(t, x) ==
    /\ CountOn(pubs, t) = 1
    /\ PayloadOn(t).txt = ""
    /\ SameNumber(NumberOf(PayloadOn(t)), x)
    /\ (PayloadOn(t).digits = 0) <=> (x.k = "int")

NoArcsecWhenScaleUnknown ==
    IsNone(PIXEL_SCALE_ARCSEC_PER_PX) => TopicsOf(pubs) \cap ArcsecTopics = {}

\* C8 (as claimed): after a GuideStep, each of dx, dy, SNR and AvgDist whose
\* key is in the event is published with its value, each one whose key is not
\* is not published, and no arcsecond topic is published with the scale
\* unknown.
C8_PresentPublished ==
    LastWasGuideStep =>
        /\ \A ft \in PassThrough :
              IF HasKey(ft[1]) THEN CarriesValue(ft[2], ft[1])
              ELSE CountOn(pubs, ft[2]) = 0
        /\ NoArcsecWhenScaleUnknown

\* C8 (amended): after a GuideStep, each of dx, dy, SNR and AvgDist that is in
\* the event with a value other than null is published once with that value,
\* each one that is absent or null is not published, and no arcsecond topic
\* is published with the scale unknown.
C8_NonNullPublished ==
    LastWasGuideStep =>
        /\ \A ft \in PassThrough :
              IF HasKey(ft[1]) /\ ft[1] # JNull THEN CarriesValue(ft[2], ft[1])
              ELSE CountOn(pubs, ft[2]) = 0
        /\ NoArcsecWhenScaleUnknown

\* A GuideStep with the scale unknown and both raw distances present was
\* handled: only its passed-through fields went out.
C8_Witness ==
    /\ LastWasGuideStep
    /\ IsNone(PIXEL_SCALE_ARCSEC_PER_PX)
    /\ IsIntOrFloat(lastLine.RADistanceRaw)
    /\ IsIntOrFloat(lastLine.DECDistanceRaw)
    /\ lastLine.dx = JNull
    /\ TopicsOf(pubs) = {GsaTopic}

\* The square of the number a, and numbers added and multiplied, as v / 10^e.
Times(a, b) == [v |-> a.v * b.v, e |-> a.e + b.e]
Plus(a, b) ==
    IF a.e = b.e THEN [v |-> a.v + b.v, e |-> a.e]
    ELSE [v |-> a.v * Pow10(b.e) + b.v * Pow10(a.e), e |-> a.e + b.e]

\* C9: after a GuideStep with numbers r and d as raw distances, handled with
\* the scale s known, the three arcsecond topics carry r*s, d*s and the
\* non-negative t with t*t = (r*r + d*d)*s*s; with s = 0.5, r = 3.0 and
\* d = 4.0 the payloads are the texts 1.5, 2.0 and 2.5.
C9_ArcsecValues ==
    LET r == lastLine.RADistanceRaw
        d == lastLine.DECDistanceRaw
        sc == PIXEL_SCALE_ARCSEC_PER_PX
        ra == StateTopic("ra_error_arcsec")
        dec == StateTopic("dec_error_arcsec")
        tot == StateTopic("total_error_arcsec")
    IN  (LastWasGuideStep /\ ~IsNone(sc) /\ IsIntOrFloat(r) /\ IsIntOrFloat(d)) =>
          /\ \A t \in ArcsecTopics : CountOn(pubs, t) = 1 /\ PayloadOn(t).txt = ""
          /\ SameNumber(NumberOf(PayloadOn(ra)), Times(r, sc))
          /\ SameNumber(NumberOf(PayloadOn(dec)), Times(d, sc))
          /\ ~PayloadOn(tot).neg
          /\ SameNumber(Times(NumberOf(PayloadOn(tot)), NumberOf(PayloadOn(tot))),
                        Times(Plus(Times(r, r), Times(d, d)), Times(sc, sc)))
          /\ (sc = JFloat(5, 1) /\ r = JFloat(30, 1) /\ d = JFloat(40, 1)) =>
                /\ PayloadOn(ra) = Numeral(FALSE, 1, 5, 1)
                /\ PayloadOn(dec) = Numeral(FALSE, 2, 0, 1)
                /\ PayloadOn(tot) = Numeral(FALSE, 2, 5, 1)

\* The GuideStep with 3.0 and 4.0 was handled with the scale 0.5.
C9_Witness ==
    /\ LastWasGuideStep
    /\ PIXEL_SCALE_ARCSEC_PER_PX = JFloat(5, 1)
    /\ lastLine.RADistanceRaw = JFloat(30, 1)
    /\ lastLine.DECDistanceRaw = JFloat(40, 1)
    /\ TopicsOf(pubs) \cap ArcsecTopics = ArcsecTopics

FourEvents == << "StarLost", "StarLost", "GuideStep", "StarLost" >>

\* C10 (as claimed): when the first four events of the process are StarLost,
\* StarLost, GuideStep, StarLost, two payloads went to guide_star_available.
C10_TwoPublishes == evlog = FourEvents => Len(gsaLog) = 2

\* C10 (amended): they produce exactly three publishes there: OFF, ON, OFF.
C10_ThreePublishes == evlog = FourEvents => gsaLog = << "OFF", "ON", "OFF" >>

\* The four events were handled.
C10_Witness == evlog = FourEvents /\ guide_star_available = JBool(FALSE)

\* The two orders in which main's finally clause can run its three steps.
ShutdownOrders ==
    { << "offline", "loop_stop", "disconnect" >>,
      << "offline raised", "loop_stop", "disconnect" >> }

IsPrefix(a, b) == Len(a) <= Len(b) /\ SubSeq(b, 1, Len(a)) = a

\* C11: once the client loop is left the shutdown runs to its end, its steps
\* in the order offline publish, loop stop, disconnect, none of them before
\* the loop is left; when the offline publish raises, the stop and the
\* disconnect still run.
C11_ShutdownInOrder ==
    /\ [](\E o \in ShutdownOrders : IsPrefix(shutLog, o))
    /\ [](~Terminated => shutLog = << >>)
    /\ [](pc = "ShutStop" => Len(shutLog) = 1)
    /\ [](pc = "ShutDisconnect" => Len(shutLog) = 2)
    /\ [](pc = "Exited" => shutLog \in ShutdownOrders)
    /\ (Terminated ~> pc = "Exited")

\* The offline publish raised and the stop and the disconnect ran.
C11_Witness ==
    /\ pc = "Exited"
    /\ shutLog = << "offline raised", "loop_stop", "disconnect" >>
    /\ mqttLoop = "stopped"

\* The positions of the client loop an interrupt is delivered at: connecting,
\* sending, reading and processing, and the retry wait.
InLoop ==
    {"Connecting", "SendAppState", "SendPixelScale", "ResetScale", "Reading",
     "Sleeping"}

\* C12: an interrupt delivered while connecting, reading, processing or
\* waiting leads to the end of the process; from then on no connection is
\* attempted, the socket is closed before the shutdown starts, and the whole
\* shutdown sequence has run when the process ends.
C12_InterruptTerminates ==
    /\ [](interrupted => pc \notin InLoop)
    /\ [](intAt \in InLoop /\ Terminated => sock # "open")
    /\ [](intAt \in InLoop /\ pc = "Exited" => shutLog \in ShutdownOrders)
    /\ (intAt \in InLoop ~> pc = "Exited")

\* The interrupt came during the retry wait with the socket still open.
C12_Witness ==
    /\ pc = "Exited"
    /\ intAt = "Sleeping"
    /\ sock = "closed"
    /\ exitMode = "raise"

\* A request was written, or its write failed, on the connection now open.
RequestIssued ==
    \/ pc \in {"SendPixelScale", "ResetScale", "Reading"}
    \/ lostBy = "senderr" /\ sock = "open"

\* C13 (as claimed): in every state in which a request has been sent or
\* attempted on the current connection, the scale holds no value learned on
\* an earlier connection.
C13_ClearedBeforeRequests ==
    (RequestIssued /\ ~scaleConn) => IsNone(PIXEL_SCALE_ARCSEC_PER_PX)

\* C13 (amended): the read loop of a connection is entered only by the step
\* that follows the two requests, and that step leaves the scale unknown; so
\* while lines of a connection are read the scale holds no value learned on
\* an earlier connection.
C13_ClearedBeforeReading ==
    /\ [][(pc # "Reading" /\ pc' = "Reading") =>
             (pc = "ResetScale" /\ IsNone(PIXEL_SCALE_ARCSEC_PER_PX'))]_vars
    /\ [][pc' = "ResetScale" => pc \in {"SendPixelScale", "ResetScale"}]_vars
    /\ []((pc = "Reading" /\ ~scaleConn) => IsNone(PIXEL_SCALE_ARCSEC_PER_PX))

\* The read loop has just been entered on a connection that follows one on
\* which events were handled, and the scale is unknown.
C13_Witness ==
    /\ pc = "Reading"
    /\ lastLine = NoLine
    /\ lastCb = "none"
    /\ Len(evlog) > 0
    /\ ~scaleConn
    /\ IsNone(PIXEL_SCALE_ARCSEC_PER_PX)

\* C14 (as claimed): once the scale has been set on a connection, no later
\* message of that connection changes it.
C14_SetAtMostOnce ==
    [][(scaleConn /\ scaleConn') => UNCHANGED PIXEL_SCALE_ARCSEC_PER_PX]_vars

\* The latest line is a response to get_pixel_scale whose result is not a
\* JSON number.
NonNumberScaleResponse(line) ==
    /\ line.kind = "obj"
    /\ IsRpcResponse(line)
    /\ PyEqInt(line.id, PIXEL_SCALE_ID)
    /\ line.result.k \notin {"int", "float"}

\* C15 (as claimed): a get_pixel_scale response whose result is not a number
\* leaves the scale as it was.
C15_NonNumberRejected ==
    [][NonNumberScaleResponse(lastLine') =>
         UNCHANGED PIXEL_SCALE_ARCSEC_PER_PX]_vars

\* C16: the steps that process no line (connect, send, close, retry wait,
\* reconnect, the callbacks) leave the guide-star flag and its topic alone,
\* and a publish there always comes with a change of the flag: the first
\* event after a reconnect is compared with the flag held before the loss.
C16_ReconnectKeepsFlag ==
    /\ [][lastLine' = NoLine =>
             UNCHANGED << guide_star_available, gsaLog >>]_vars
    /\ [][gsaLog' # gsaLog =>
             guide_star_available' # guide_star_available]_vars

\* A new connection was opened after events were handled, and the flag
\* still holds the value they left.
C16_Witness ==
    /\ pc = "SendAppState"
    /\ ~IsNone(guide_star_available)
    /\ Len(evlog) > 0
    /\ lostBy = "none"

\* C17: a connect notification with result code 0 publishes online,
\* retained, as its first publish, and all its other publishes are
\* discovery records; a connect notification with another result code and
\* a disconnect notification publish nothing and change no program state.
C17_OnlineFirst ==
    [][/\ lastCb' = "connect ok" =>
            /\ Len(pubs') >= 1
            /\ pubs'[1] = Publish(AVAILABILITY_TOPIC, Text("online"), 1, TRUE)
            /\ \A i \in 2..Len(pubs') : pubs'[i].topic \in DiscoveryTopics
       /\ lastCb' \in {"connect failed", "disconnect"} =>
            /\ pubs' = << >>
            /\ UNCHANGED << discovery_published, discCount, availability,
                            PIXEL_SCALE_ARCSEC_PER_PX, guide_star_available,
                            pc, sock, exitMode, mqttLoop >>]_vars

\* A connect notification published online and then the discovery records.
C17_Witness ==
    /\ lastCb = "connect ok"
    /\ Len(pubs) = 1 + Cardinality(DiscoveryTopics)
    /\ pubs[1].topic = AVAILABILITY_TOPIC
    /\ pubs[2].topic \in DiscoveryTopics

\* A decoded message that the claim counts neither as an RPC response nor
\* as a server event.
OtherMessage(line) ==
    /\ line.kind = "obj"
    /\ ~(HasKey(line.result) /\ HasKey(line.id))
    /\ ~(line.Event # "absent" /\ ~HasKey(line.id) /\ ~HasKey(line.result))

\* C18 (as claimed): a message that is neither an RPC response (result and
\* id) nor an event (Event without id and result) causes no publish and no
\* change of the scale or of the flag.
C18_OthersIgnored ==
    [][OtherMessage(lastLine') =>
         /\ pubs' = << >>
         /\ UNCHANGED << PIXEL_SCALE_ARCSEC_PER_PX, guide_star_available >>]_vars

\* C19 (as claimed): when the shutdown that published offline has completed,
\* the last payload published on the availability topic is offline.
C19_OfflineLast ==
    (pc = "Exited" /\ shutLog[1] = "offline") => availability = "offline"

\* C20: the flag is unknown exactly when nothing was ever published on
\* guide_star_available, and otherwise the latest payload there is ON when
\* the flag is true and OFF when it is false.
C20_FlagMatchesHistory ==
    /\ IsNone(guide_star_available) <=> gsaLog = << >>
    /\ gsaLog # << >> =>
          /\ guide_star_available \in {JBool(TRUE), JBool(FALSE)}
          /\ gsaLog[Len(gsaLog)] =
                IF guide_star_available = JBool(TRUE) THEN "ON" ELSE "OFF"

\* The flag has changed twice or more and is true.
C20_Witness ==
    /\ Len(gsaLog) >= 2
    /\ guide_star_available = JBool(TRUE)
    /\ pc = "Reading"

====
